---- MODULE Spec2Model ----
(***************************************************************************)
(* A model of imexporter.py: the per-contact incremental export of DM      *)
(* history from the Messages store into state.json, a JSON snapshot, a CSV *)
(* file and rollup.json.                                                   *)
(*                                                                         *)
(* Conventions.  Strings that the code inspects character by character     *)
(* (contact numbers, handle ids) are sequences of one-character strings.   *)
(* An integer of the store's date column is the pair hi, lo standing for   *)
(* hi * 10^9 + lo, so that values around the 10^12 heuristic threshold fit *)
(* the model checker's integers.  A canonical timestamp is kept as the day *)
(* number since 2001-01-01 and the second within that day; the local zone  *)
(* is taken to be UTC.  Message text and attachments are carried through   *)
(* by the code without influencing any decision and are left out.          *)
(* Timestamps written by iso_now() are the value of a logical clock that   *)
(* advances with every operation.                                          *)
(***************************************************************************)
EXTENDS Integers, Sequences, FiniteSets, TLC

\* ------------------------------------------------------------------ bounds
MaxRowid == 3
MaxClock == 4
MaxDays == 1
NowDay == 2

\* --------------------------------------------------------- strings, inputs
NUM_A == <<"+", "4", "4", "7", "9", "6", "2", "7", "8", "6", "9", "2", "2">>
NUM_B == <<"+", "1", "9", "9", "9", "9", "9", "9", "9", "9", "9", "9">>
H_NOPLUS == Tail(NUM_A)
H_TEL == <<"t", "e", "l", ":">> \o NUM_A

ContactInputs == {NUM_A, NUM_B}
Handles == {NUM_A, H_NOPLUS, H_TEL, NUM_B}
Scopes == {"all", "last_n_days", "none"}

Digits == {"0", "1", "2", "3", "4", "5", "6", "7", "8", "9"}
Whitespace == {" ", "\t", "\n", "\r"}

RECURSIVE lstrip(_)
lstrip(s) == IF s # <<>> /\ Head(s) \in Whitespace THEN lstrip(Tail(s)) ELSE s

RECURSIVE rstrip(_)
rstrip(s) ==
  IF s # <<>> /\ s[Len(s)] \in Whitespace THEN rstrip(SubSeq(s, 1, Len(s) - 1)) ELSE s

strip(s) == rstrip(lstrip(s))

IsDigit(ch) == ch \in Digits
NotSeparator(ch) == ch \notin {" ", "-"}

normalize_number_variants(num) ==
  LET raw == strip(num)
      nosep == SelectSeq(raw, NotSeparator)
      digits == SelectSeq(raw, IsDigit)
  IN {raw, nosep} \cup (IF digits # <<>> THEN {digits} ELSE {})

EndsWith(s, suffix) ==
  /\ Len(suffix) <= Len(s)
  /\ SubSeq(s, Len(s) - Len(suffix) + 1, Len(s)) = suffix

\* ------------------------------------------------------------- timestamps
Giga == 1000000000
ThresholdGiga == 1000

NullRaw == [kind |-> "null", hi |-> 0, lo |-> 0]
\* A value int() does not accept (a text such as 'abc').
TextRaw == [kind |-> "text", hi |-> 0, lo |-> 0]
\* The integer h * 10^9 + l; h and l are both >= 0 or both <= 0.
IntRaw(h, l) == [kind |-> "int", hi |-> h, lo |-> l]

NoneIso == [kind |-> "none", day |-> 0, sec |-> 0]
RaiseIso == [kind |-> "raise", day |-> 0, sec |-> 0]
Iso(d, s) == [kind |-> "iso", day |-> d, sec |-> s]

Abs(x) == IF x < 0 THEN 0 - x ELSE x

\* base + timedelta: OverflowError outside datetime.min .. datetime.max
\* (0001-01-01 .. 9999-12-31), which are the days -730485 and 2921573
\* counted from the base 2001-01-01.
datetime_add(d, s) == IF d > 2921573 \/ d < -730485 THEN RaiseIso ELSE Iso(d, s)

apple_time_to_iso(apple_time) ==
  IF apple_time.kind = "null" THEN NoneIso
  ELSE IF apple_time.kind = "text" THEN NoneIso
  ELSE
    LET hi == apple_time.hi
        lo == apple_time.lo
    IN IF Abs(hi) > ThresholdGiga \/ (Abs(hi) = ThresholdGiga /\ Abs(lo) > 0)
       THEN \* nanoseconds: t / 10^9 seconds as a float, rounded to the
            \* microsecond by timedelta, then cut down to the second by
            \* replace(microsecond=0)
            LET s == IF lo > Giga - 500 THEN hi + 1
                     ELSE IF lo <= -500 THEN hi - 1
                     ELSE hi
            IN datetime_add(s \div 86400, s % 86400)
       ELSE \* seconds: hi * 10^9 + lo, with 10^9 = 11574 * 86400 + 6400
            LET r == hi * 6400 + lo
            IN datetime_add(hi * 11574 + (r \div 86400), r % 86400)

day_key_from_iso(iso) == IF iso.kind = "iso" THEN <<iso.day>> ELSE <<>>

\* ------------------------------------------------------------------ store
\* The date and is_from_me columns a stored message may carry.  Dates: NULL,
\* second 0 (in seconds), day 1 (in nanoseconds), and 5 * 10^11 (seconds,
\* past datetime.max).
MsgKinds ==
  {<<NullRaw, 1>>, <<IntRaw(0, 0), 1>>, <<IntRaw(0, 0), 0>>,
   <<IntRaw(86400, 0), 0>>, <<IntRaw(500, 0), 0>>}

RowIds == 1 .. MaxRowid

Row(i, h, k) == [rowid |-> i, handle |-> h, date_apple |-> k[1], is_from_me |-> k[2]]

StoreRows == {Row(i, h, k) : i \in RowIds, h \in ContactInputs, k \in MsgKinds}

RowidsOf(S) == {r.rowid : r \in S}

Max(S) == CHOOSE x \in S : \A y \in S : y <= x

RECURSIVE OrderByRowid(_)
OrderByRowid(S) ==
  IF S = {} THEN <<>>
  ELSE LET first == CHOOSE r \in S : \A q \in S : r.rowid <= q.rowid
       IN <<first>> \o OrderByRowid(S \ {first})

SQL_MESSAGES_ANY_HANDLE(S, variants) == OrderByRowid(S)

\* SELECT ... JOIN handle h ... WHERE h.id IN (variants) ORDER BY m.ROWID ASC
SQL_MESSAGES_FOR_HANDLE(S, variants) ==
  OrderByRowid({r \in S : r.handle \in variants})

None == <<>>
Some(x) == <<x>>

Record(r, iso) == [rowid |-> r.rowid, date |-> iso, is_from_me |-> r.is_from_me]

skip_by_rowid_strict(rowid, min_rowid) == min_rowid # None /\ rowid < min_rowid[1]

\* if min_rowid is not None and rowid <= min_rowid: continue
skip_by_rowid(rowid, min_rowid) == min_rowid # None /\ rowid <= min_rowid[1]

RECURSIVE fetch_loop(_, _, _, _)
fetch_loop(rows, min_rowid, cutoff, out) ==
  IF rows = <<>> THEN [raised |-> FALSE, rows |-> out]
  ELSE
    LET r == Head(rows)
        iso == apple_time_to_iso(r.date_apple)
    IN IF skip_by_rowid(r.rowid, min_rowid)
       THEN fetch_loop(Tail(rows), min_rowid, cutoff, out)
       ELSE IF iso.kind = "raise" THEN [raised |-> TRUE, rows |-> <<>>]
       ELSE IF cutoff # None /\ iso.kind = "iso" /\ iso.day < cutoff[1]
       THEN fetch_loop(Tail(rows), min_rowid, cutoff, out)
       ELSE fetch_loop(Tail(rows), min_rowid, cutoff, Append(out, Record(r, iso)))

fetch_dm_rows(S, number, min_rowid, since_days) ==
  LET variants == normalize_number_variants(number)
      rows == SQL_MESSAGES_FOR_HANDLE(S, variants)
      cutoff == IF since_days # None /\ since_days[1] > 0
                THEN Some(NowDay - since_days[1]) ELSE None
  IN fetch_loop(rows, min_rowid, cutoff, <<>>)

\* ------------------------------------------------------- per-contact files
\* A file written with write_text is absent, empty (opened for writing and
\* truncated, content not yet flushed) or holds a complete JSON document.
\* A file can also hold what the program did not write: text that is not
\* JSON ("garbage"), or JSON of another shape than the code expects
\* ("shape": a list for state.json and rollup.json, an object for the
\* snapshot).  BadRowid stands for a last_rowid that is not a number, such
\* as the string "abc".
BadRowid == -1
AbsentState == [kind |-> "absent", last_rowid |-> 0, last_run_at |-> 0]
EmptyState == [kind |-> "empty", last_rowid |-> 0, last_run_at |-> 0]
AbsentJson == [kind |-> "absent", data |-> <<>>]
EmptyJson == [kind |-> "empty", data |-> <<>>]
AbsentRollup == [kind |-> "absent", days |-> <<>>, updated_at |-> 0]
EmptyRollup == [kind |-> "empty", days |-> <<>>, updated_at |-> 0]
AbsentCsv == [exists |-> FALSE, lines |-> <<>>]
GarbageState == [kind |-> "garbage", last_rowid |-> 0, last_run_at |-> 0]
ShapeState == [kind |-> "shape", last_rowid |-> 0, last_run_at |-> 0]
BadRowidState == [kind |-> "json", last_rowid |-> BadRowid, last_run_at |-> 0]
GarbageJson == [kind |-> "garbage", data |-> <<>>]
ShapeJson == [kind |-> "shape", data |-> <<>>]
GarbageRollup == [kind |-> "garbage", days |-> <<>>, updated_at |-> 0]
ShapeRollup == [kind |-> "shape", days |-> <<>>, updated_at |-> 0]

NoContactFs ==
  [dir |-> FALSE, state |-> AbsentState, csv |-> AbsentCsv,
   json |-> AbsentJson, rollup |-> AbsentRollup]

ensure_contact_fs(f) == [f EXCEPT !.dir = TRUE]

\* The dict load_state returns; last_run_at 0 stands for None.
load_state(statefile) ==
  IF statefile.kind = "json"
  THEN [last_rowid |-> statefile.last_rowid, last_run_at |-> statefile.last_run_at]
  ELSE [last_rowid |-> 0, last_run_at |-> 0]

\* print_last_run: state.get("last_run_at") is an AttributeError when
\* json.loads gave a value that is not a dict
print_last_run_raises(statefile) == statefile.kind = "shape"

\* int(x), default when int() raises
safe_int(x, default) == IF x = BadRowid THEN default ELSE x

save_state(state, now) ==
  [kind |-> "json", last_rowid |-> state.last_rowid, last_run_at |-> now]

CsvHeader == [header |-> TRUE, rowid |-> 0, date |-> NoneIso, is_from_me |-> 0]
CsvLine(r) ==
  [header |-> FALSE, rowid |-> r.rowid, date |-> r.date, is_from_me |-> r.is_from_me]

RECURSIVE CsvLines(_)
CsvLines(rows) ==
  IF rows = <<>> THEN <<>> ELSE <<CsvLine(Head(rows))>> \o CsvLines(Tail(rows))

append_csv_with_header(csvfile, rows) ==
  [exists |-> TRUE, lines |-> csvfile.lines \o <<CsvHeader>> \o CsvLines(rows)]

append_csv(csvfile, rows) ==
  LET new_file == ~csvfile.exists
  IN [exists |-> TRUE,
      lines |-> csvfile.lines \o (IF new_file THEN <<CsvHeader>> ELSE <<>>)
                  \o CsvLines(rows)]

append_json_overwrite(jsonfile, rows) == [kind |-> "json", data |-> rows]

read_json_forget(jsonfile) == <<>>

\* data = json.loads(json_path.read_text()), [] when missing or unparsable
read_json(jsonfile) == IF jsonfile.kind = "json" THEN jsonfile.data ELSE <<>>

\* data.extend(rows) is an AttributeError when data is not a list
append_json_raises(jsonfile) == jsonfile.kind = "shape"

append_json(jsonfile, rows) ==
  LET data == read_json(jsonfile)
  IN [kind |-> "json", data |-> data \o rows]

load_rollup_fresh(rollupfile) == <<>>

\* rollup["days"] is a function from day keys to buckets; <<>> is {}.
load_rollup(rollupfile) == IF rollupfile.kind = "json" THEN rollupfile.days ELSE <<>>

NewBucket == [me |-> 0, them |-> 0, total |-> 0]

bump_bucket_me_only(v, r) ==
  LET w == IF r.is_from_me # 0 THEN [v EXCEPT !.me = @ + 1]
           ELSE [v EXCEPT !.them = @ + 1]
  IN [w EXCEPT !.total = w.me]

bump_bucket(v, r) ==
  LET w == IF r.is_from_me # 0 THEN [v EXCEPT !.me = @ + 1]
           ELSE [v EXCEPT !.them = @ + 1]
  IN [w EXCEPT !.total = w.me + w.them]

RECURSIVE rollup_loop(_, _)
rollup_loop(days, new_rows) ==
  IF new_rows = <<>> THEN days
  ELSE
    LET r == Head(new_rows)
        dk == day_key_from_iso(r.date)
    IN IF dk = <<>> THEN rollup_loop(days, Tail(new_rows))
       ELSE
         LET v == IF dk[1] \in DOMAIN days THEN days[dk[1]] ELSE NewBucket
             nv == bump_bucket(v, r)
             nd == [k \in (DOMAIN days) \cup {dk[1]} |->
                      IF k = dk[1] THEN nv ELSE days[k]]
         IN rollup_loop(nd, Tail(new_rows))

save_rollup(days, now) == [kind |-> "json", days |-> days, updated_at |-> now]

\* roll.setdefault("days", {}) is an AttributeError when roll is not a dict
update_rollup_raises(rollupfile) == rollupfile.kind = "shape"

update_rollup(rollupfile, new_rows, now) ==
  save_rollup(rollup_loop(load_rollup(rollupfile), new_rows), now)

\* ------------------------------------------------------------ export logic
MaxRowidOf(rows) == Max({rows[i].rowid : i \in DOMAIN rows})

new_last_rowid_overwrite(state, max_rowid) == max_rowid

new_last_rowid_stale(state, max_rowid) == state.last_rowid

\* max(...) of a str and an int is a TypeError
new_last_rowid_raises(state) == state.last_rowid = BadRowid

\* state["last_rowid"] = max(state.get("last_rowid", 0), max_rowid)
new_last_rowid(state, max_rowid) ==
  IF state.last_rowid >= max_rowid THEN state.last_rowid ELSE max_rowid

scope_min_rowid_stateless(import_scope, state) == None

\* min_rowid and since_days as export_contact chooses them from the scope
scope_min_rowid(import_scope, state) ==
  IF import_scope \in {"all", "last_n_days"} THEN None
  ELSE Some(safe_int(state.last_rowid, 0))

scope_since_days(import_scope, days) ==
  IF import_scope = "last_n_days" THEN Some(IF days > 0 THEN days ELSE 0) ELSE None

Raised(f) == [f |-> f, n |-> 0, raised |-> TRUE]

setup_only_never(import_scope) == FALSE

\* if import_scope == "none": ... return 0
setup_only(import_scope) == import_scope = "none"

\* The result of one call: the contact's files afterwards, the number
\* returned, and whether the call ended in an exception instead.  What was
\* written before the exception stays written.
export_contact(f0, S, contact_id, import_scope, days, now) ==
  LET f == ensure_contact_fs(f0)
      state == load_state(f.state)
  IN IF print_last_run_raises(f.state) THEN Raised(f)
     ELSE IF setup_only(import_scope) THEN [f |-> f, n |-> 0, raised |-> FALSE]
     ELSE
       LET got == fetch_dm_rows(S, contact_id, scope_min_rowid(import_scope, state),
                                scope_since_days(import_scope, days))
           enriched == got.rows
       IN IF got.raised THEN Raised(f)
          ELSE IF enriched = <<>>
          THEN [f |-> [f EXCEPT !.state = save_state(state, now)],
                n |-> 0, raised |-> FALSE]
          ELSE
            LET f1 == [f EXCEPT !.csv = append_csv(f.csv, enriched)]
                f2 == [f1 EXCEPT !.json = append_json(f.json, enriched)]
                f3 == [f2 EXCEPT !.rollup = update_rollup(f.rollup, enriched, now)]
                st == [state EXCEPT
                         !.last_rowid = new_last_rowid(state, MaxRowidOf(enriched))]
            IN IF append_json_raises(f.json) THEN Raised(f1)
               ELSE IF update_rollup_raises(f.rollup) THEN Raised(f2)
               ELSE IF new_last_rowid_raises(state) THEN Raised(f3)
               ELSE [f |-> [f3 EXCEPT !.state = save_state(st, now)],
                     n |-> Len(enriched), raised |-> FALSE]

\* ---------------------------------------------------------------- index
\* index.json's "contacts": the list of their entries, each with the id and
\* the displayName (path repeats the id; the time stamps decide nothing and
\* are left out).  A display name is a sequence of characters, <<>> for one
\* not given.
InIndex(idx, contact_id) == \E i \in DOMAIN idx : idx[i].id = contact_id

\* [c.get("id") for c in idx.get("contacts", [])]
contact_ids(idx) == [i \in DOMAIN idx |-> idx[i].id]

ensure_contact_in_index_append(idx, contact_id, display_name) ==
  Append(idx, [id |-> contact_id,
               displayName |-> IF display_name # <<>> THEN display_name
                               ELSE contact_id])

\* The loop stops at the first entry with the id: only that one is updated.
ensure_contact_in_index(idx, contact_id, display_name) ==
  IF InIndex(idx, contact_id)
  THEN LET first == CHOOSE i \in DOMAIN idx :
                      /\ idx[i].id = contact_id
                      /\ \A j \in DOMAIN idx : idx[j].id = contact_id => i <= j
       IN IF display_name # <<>>
          THEN [idx EXCEPT ![first].displayName = display_name]
          ELSE idx
  ELSE Append(idx, [id |-> contact_id,
                    displayName |-> IF display_name # <<>> THEN display_name
                                    ELSE contact_id])

\* ------------------------------------------------------------ operations
\* for cid in contacts: n = export_contact(conn, cid, "incremental").
\* An exception leaves the loop: the contacts after it are not reached.
RECURSIVE export_loop(_, _, _, _, _)
export_loop(fs, contacts, S, now, done) ==
  IF contacts = <<>> THEN [files |-> fs, done |-> done, raised |-> FALSE]
  ELSE
    LET cid == Head(contacts)
        res == export_contact(fs[cid], S, cid, "incremental", 0, now)
        fs1 == [fs EXCEPT ![cid] = res.f]
    IN IF res.raised THEN [files |-> fs1, done |-> done, raised |-> TRUE]
       ELSE export_loop(fs1, Tail(contacts), S, now,
                        Append(done, [c |-> cid, n |-> res.n]))

NotOpened(fs) == [files |-> fs, opened |-> FALSE, done |-> <<>>, raised |-> FALSE]

run_export_all_unguarded(fs, idx, S, db_ok, now) ==
  LET res == export_loop(fs, contact_ids(idx), S, now, <<>>)
  IN [files |-> res.files, opened |-> db_ok /\ idx # <<>>, done |-> res.done,
      raised |-> res.raised]

run_export_all(fs, idx, S, db_ok, now) ==
  IF idx = <<>> THEN NotOpened(fs)
  ELSE IF ~db_ok THEN NotOpened(fs)
  ELSE LET res == export_loop(fs, contact_ids(idx), S, now, <<>>)
       IN [files |-> res.files, opened |-> TRUE, done |-> res.done,
           raised |-> res.raised]

auto_run(fs, idx, S, db_ok, now) ==
  IF idx = <<>> THEN NotOpened(fs)
  ELSE IF ~db_ok THEN NotOpened(fs)
  ELSE LET res == export_loop(fs, contact_ids(idx), S, now, <<>>)
       IN [files |-> res.files, opened |-> TRUE, done |-> res.done,
           raised |-> res.raised]

\* The files after add_new_number; the index entry is made by the action.
add_new_number(fs, S, contact_id, scope, days, db_ok, now) ==
  LET fs1 == [fs EXCEPT ![contact_id] = ensure_contact_fs(@)]
  IN IF ~db_ok THEN NotOpened(fs1)
     ELSE LET res == export_contact(fs1[contact_id], S, contact_id, scope, days, now)
          IN [files |-> [fs1 EXCEPT ![contact_id] = res.f], opened |-> TRUE,
              done |-> IF res.raised THEN <<>>
                       ELSE <<[c |-> contact_id, n |-> res.n]>>,
              raised |-> res.raised]

\* ------------------------------------------------------------------ state
VARIABLES
  store,   \* the rows of the message table joined with their handle
  index,   \* the ids of index.json's contacts, in order
  files,   \* per contact directory: state.json, CSV, JSON snapshot, rollup.json
  clock,   \* the logical time of the last operation
  last,    \* the last operation: its inputs, what it returned, the files before it
  hist     \* per contact: the shape of its export_contact calls so far ("none",
           \* "initial" = a first call followed by incremental ones only,
           \* "reimported" = add_new_number exported it after an earlier call);
           \* whether the preceding export was a completed incremental one with
           \* the store unchanged since
VARIABLES
  run,     \* per process: where its run_export_all stands (used by SpecSteps)
  pending  \* per contact: the snapshot and rollup as an interrupted export left
           \* them, its cursor not yet saved (used by SpecSteps)

vars == <<store, index, files, clock, last, hist, run, pending>>

Procs == {"manual", "auto"}

Idle ==
  [pc |-> "idle", queue |-> <<>>, state |-> [last_rowid |-> 0, last_run_at |-> 0],
   rows |-> <<>>, data |-> <<>>, days |-> <<>>, now |-> 0]

NoPending == [phase |-> "none", data |-> <<>>, days |-> <<>>]

AllIdle == \A p \in Procs : run[p].pc = "idle"

NoFiles == [c \in ContactInputs |-> NoContactFs]
NoneFresh == [c \in ContactInputs |-> FALSE]

Op(op, contact_id, scope, db_ok, res) ==
  [op |-> op, contact |-> contact_id, scope |-> scope, db_ok |-> db_ok,
   opened |-> res.opened, done |-> res.done, raised |-> res.raised,
   pre |-> files, fresh |-> hist.fresh]

Init ==
  /\ store = {}
  /\ index = <<>>
  /\ files = NoFiles
  /\ clock = 0
  /\ last = [op |-> "init", contact |-> <<>>, scope |-> "", db_ok |-> TRUE,
             opened |-> FALSE, done |-> <<>>, raised |-> FALSE,
             pre |-> NoFiles, fresh |-> NoneFresh]
  /\ hist = [shape |-> [c \in ContactInputs |-> "none"], fresh |-> NoneFresh]
  /\ run = [p \in Procs |-> Idle]
  /\ pending = [c \in ContactInputs |-> NoPending]

DoneContacts(done) == {done[i].c : i \in DOMAIN done}

\* The contacts a batch called export_contact for: those it completed and
\* the one whose export raised.
Reached(res, idx) ==
  DoneContacts(res.done) \cup (IF res.raised THEN {idx[Len(res.done) + 1]} ELSE {})

\* A message arrives in the store (read-only for the program).
InsertFrom(rows) ==
  /\ clock < MaxClock
  /\ \E r \in rows :
       /\ r.rowid \notin RowidsOf(store)
       /\ store' = store \cup {r}
  /\ clock' = clock + 1
  /\ last' = Op("insert", <<>>, "", TRUE, NotOpened(files))
  /\ hist' = [hist EXCEPT !.fresh = NoneFresh]
  /\ pending' = [c \in ContactInputs |-> NoPending]
  /\ UNCHANGED <<index, files, run>>

StoreInsert == InsertFrom(StoreRows)

\* The menu's Add New Number, with the scope, the store's availability and
\* the display name typed (<<>> when left blank) drawn from the given sets.
\* display = input(...).strip() or contact_id
AddNewNumberNamed(scopes, dbs, names) ==
  /\ clock < MaxClock
  /\ AllIdle
  /\ \E contact_id \in ContactInputs, scope \in scopes, db_ok \in dbs, name \in names :
       \E days \in (IF scope = "last_n_days" THEN 1 .. MaxDays ELSE {0}) :
         LET res == add_new_number(files, store, contact_id, scope, days, db_ok,
                                   clock + 1)
             display == IF name # <<>> THEN name ELSE contact_id
         IN /\ files' = res.files
            /\ index' = ensure_contact_in_index(index, contact_id, display)
            /\ last' = Op("add_new_number", contact_id, scope, db_ok, res)
            /\ hist' = [shape |-> [hist.shape EXCEPT
                                     ![contact_id] =
                                       IF ~res.opened THEN @
                                       ELSE IF @ = "none" THEN "initial"
                                       ELSE "reimported"],
                        fresh |-> [hist.fresh EXCEPT
                                     ![contact_id] = IF res.opened THEN FALSE ELSE @]]
  /\ clock' = clock + 1
  /\ UNCHANGED <<store, run, pending>>

\* The same with the display name left blank.
AddNewNumberWith(scopes, dbs) == AddNewNumberNamed(scopes, dbs, {<<>>})

AddNewNumber == AddNewNumberWith(Scopes, BOOLEAN)

AfterBatch(op, db_ok, res) ==
  /\ files' = res.files
  /\ last' = Op(op, <<>>, "incremental", db_ok, res)
  /\ hist' = [shape |-> [c \in ContactInputs |->
                            IF c \in Reached(res, contact_ids(index)) /\ hist.shape[c] = "none"
                            THEN "initial" ELSE hist.shape[c]],
              fresh |-> [c \in ContactInputs |->
                           IF c \in DoneContacts(res.done) THEN TRUE
                           ELSE IF c \in Reached(res, contact_ids(index)) THEN FALSE
                           ELSE hist.fresh[c]]]
  /\ clock' = clock + 1
  /\ UNCHANGED <<store, index, run, pending>>

RunExportAll ==
  /\ clock < MaxClock
  /\ \E db_ok \in BOOLEAN :
       AfterBatch("run_export_all", db_ok,
                  run_export_all(files, index, store, db_ok, clock + 1))

AutoRun ==
  /\ clock < MaxClock
  /\ \E db_ok \in BOOLEAN :
       AfterBatch("auto_run", db_ok, auto_run(files, index, store, db_ok, clock + 1))

Next == StoreInsert \/ AddNewNumber \/ RunExportAll \/ AutoRun

Spec == Init /\ [][Next]_vars

\* ------------------------------------------------- the resolver's handles
\* The same operations over a store whose messages belong to any handle of
\* Handles, all with the same date.
ResolveRows == {Row(i, h, <<IntRaw(0, 0), 0>>) : i \in RowIds, h \in Handles}

InsertHandle == InsertFrom(ResolveRows)

ImportAll == AddNewNumberWith({"all"}, {TRUE})

ResolveNext == InsertHandle \/ ImportAll \/ RunExportAll

SpecResolve == Init /\ [][ResolveNext]_vars

\* ------------------------------------------------- the index of contacts
\* Registrations with and without a display name, with the store openable
\* or not, and the runs that read the index.
DisplayNames == {<<>>, <<"M", "u", "m">>, <<"D", "a", "d">>}

RegisterNamed == AddNewNumberNamed({"none"}, BOOLEAN, DisplayNames)

IndexNext == RegisterNamed \/ RunExportAll

SpecIndex == Init /\ [][IndexNext]_vars

\* ------------------------------------------------- the timestamp codec
\* The same operations over a store whose date column holds the values the
\* codec distinguishes: NULL, a text, 0, -1, 999_999_999_999, 10^12,
\* 10^12 + 1, -(10^12 + 1) and day 1 in nanoseconds less one nanosecond.
CodecDates ==
  {NullRaw, TextRaw, IntRaw(0, 0), IntRaw(0, -1), IntRaw(999, 999999999),
   IntRaw(1000, 0), IntRaw(1000, 1), IntRaw(-1000, -1), IntRaw(86399, 999999999)}

CodecRows == {Row(i, NUM_A, <<d, 0>>) : i \in RowIds, d \in CodecDates}

InsertDate == InsertFrom(CodecRows)

CodecNext == InsertDate \/ ImportAll \/ RunExportAll

SpecCodec == Init /\ [][CodecNext]_vars

\* ------------------------------------------------- malformed files
\* The same operations when something else than the program (a sync
\* conflict, an editor) leaves malformed content in a contact's directory.
\* The messages all have dates the codec decodes.
PlainRows ==
  {Row(i, h, k) : i \in RowIds, h \in ContactInputs,
                  k \in {<<IntRaw(0, 0), 1>>, <<NullRaw, 0>>}}

InsertPlain == InsertFrom(PlainRows)

Malformed(f) ==
  {[f EXCEPT !.state = x] : x \in {GarbageState, ShapeState, BadRowidState}}
    \cup {[f EXCEPT !.json = x] : x \in {GarbageJson, ShapeJson}}
    \cup {[f EXCEPT !.rollup = x] : x \in {GarbageRollup, ShapeRollup}}

Corrupt ==
  /\ clock < MaxClock
  /\ AllIdle
  /\ \E c \in ContactInputs :
       /\ files[c].dir
       /\ \E f \in Malformed(files[c]) :
            /\ files' = [files EXCEPT ![c] = f]
            /\ last' = Op("corrupt", c, "", TRUE, NotOpened(files'))
            /\ hist' = [hist EXCEPT !.fresh[c] = FALSE]
  /\ clock' = clock + 1
  /\ UNCHANGED <<store, index, run, pending>>

CorruptNext == InsertPlain \/ ImportAll \/ Corrupt \/ RunExportAll

SpecCorrupt == Init /\ [][CorruptNext]_vars

\* ------------------------------------------------- a run, write by write
\* run_export_all as the sequence of its reads and writes, so that a process
\* can be killed between any two of them.  write_text opens the file for
\* writing, which truncates it, and the content is there once it is closed.
StepRows ==
  {Row(i, h, k) : i \in RowIds, h \in ContactInputs,
                  k \in {<<IntRaw(0, 0), 1>>, <<NullRaw, 0>>, <<IntRaw(500, 0), 0>>}}

StepInsert ==
  /\ \A p \in Procs : run[p].pc \in {"idle", "load"}
  /\ InsertFrom(StepRows)

Register == AddNewNumberWith({"none"}, {TRUE})

Current(p) == Head(run[p].queue)

Goto(p, pc) == run' = [run EXCEPT ![p].pc = pc]

StepOp(op, cid, res) ==
  [op |-> op, contact |-> cid, scope |-> "incremental", db_ok |-> TRUE,
   opened |-> TRUE, done |-> res, raised |-> FALSE, pre |-> files,
   fresh |-> hist.fresh]

\* run_export_all up to the loop: load_index, open_db_readonly
Start(p) ==
  /\ run[p].pc = "idle"
  /\ clock < MaxClock
  /\ index # <<>>
  /\ clock' = clock + 1
  /\ \E db_ok \in BOOLEAN :
       IF db_ok
       THEN /\ run' = [run EXCEPT ![p] = [Idle EXCEPT !.pc = "load", !.queue = contact_ids(index),
                                                     !.now = clock + 1]]
            /\ last' = StepOp("start", <<>>, <<>>)
       ELSE /\ last' = Op("run_export_all", <<>>, "incremental", FALSE, NotOpened(files))
            /\ UNCHANGED run
  /\ UNCHANGED <<store, index, files, hist, pending>>

\* export_contact: paths_for_contact, load_state, fetch_dm_rows
Load(p) ==
  /\ run[p].pc = "load"
  /\ LET cid == Current(p)
         state == load_state(files[cid].state)
         got == fetch_dm_rows(store, cid, scope_min_rowid("incremental", state),
                              scope_since_days("incremental", 0))
     IN /\ files' = [files EXCEPT ![cid] = ensure_contact_fs(@)]
        /\ pending' = [pending EXCEPT ![cid] = IF @.phase = "rerun" THEN NoPending ELSE @]
        /\ IF got.raised
           THEN /\ run' = [run EXCEPT ![p] = Idle]
                /\ last' = [StepOp("export_contact", cid, <<>>) EXCEPT !.raised = TRUE]
           ELSE /\ run' = [run EXCEPT ![p].state = state, ![p].rows = got.rows,
                                      ![p].pc = IF got.rows = <<>> THEN "state_open"
                                                ELSE "csv"]
                /\ UNCHANGED last
  /\ UNCHANGED <<store, index, clock, hist>>

WriteFile(p, f, pc) ==
  /\ files' = [files EXCEPT ![Current(p)] = f]
  /\ Goto(p, pc)
  /\ UNCHANGED <<store, index, clock, last, hist, pending>>

Csv(p) ==
  /\ run[p].pc = "csv"
  /\ LET f == files[Current(p)]
     IN WriteFile(p, [f EXCEPT !.csv = append_csv(f.csv, run[p].rows)], "json_read")

JsonRead(p) ==
  /\ run[p].pc = "json_read"
  /\ run' = [run EXCEPT ![p].data = read_json(files[Current(p)].json),
                        ![p].pc = "json_open"]
  /\ UNCHANGED <<store, index, files, clock, last, hist, pending>>

JsonOpen(p) ==
  /\ run[p].pc = "json_open"
  /\ WriteFile(p, [files[Current(p)] EXCEPT !.json = EmptyJson], "json_write")

JsonWrite(p) ==
  /\ run[p].pc = "json_write"
  /\ WriteFile(p, [files[Current(p)] EXCEPT
                     !.json = [kind |-> "json", data |-> run[p].data \o run[p].rows]],
               "rollup_read")

RollupRead(p) ==
  /\ run[p].pc = "rollup_read"
  /\ run' = [run EXCEPT ![p].days = load_rollup(files[Current(p)].rollup),
                        ![p].pc = "rollup_open"]
  /\ UNCHANGED <<store, index, files, clock, last, hist, pending>>

RollupOpen(p) ==
  /\ run[p].pc = "rollup_open"
  /\ WriteFile(p, [files[Current(p)] EXCEPT !.rollup = EmptyRollup], "rollup_write")

RollupWrite(p) ==
  /\ run[p].pc = "rollup_write"
  /\ WriteFile(p, [files[Current(p)] EXCEPT
                     !.rollup = save_rollup(rollup_loop(run[p].days, run[p].rows),
                                            run[p].now)],
               "state_open")

\* state["last_rowid"] = max(...), then save_state opens state.json
StateOpen(p) ==
  /\ run[p].pc = "state_open"
  /\ files' = [files EXCEPT ![Current(p)].state = EmptyState]
  /\ run' = [run EXCEPT
               ![p].state = IF run[p].rows = <<>> THEN @
                            ELSE [@ EXCEPT !.last_rowid =
                                    new_last_rowid(run[p].state,
                                                   MaxRowidOf(run[p].rows))],
               ![p].pc = "state_write"]
  /\ UNCHANGED <<store, index, clock, last, hist, pending>>

\* save_state closes state.json; export_contact returns and the loop goes on
StateWrite(p) ==
  /\ run[p].pc = "state_write"
  /\ LET cid == Current(p)
         rest == Tail(run[p].queue)
     IN /\ files' = [files EXCEPT ![cid].state = save_state(run[p].state, run[p].now)]
        /\ run' = [run EXCEPT ![p] = IF rest = <<>> THEN Idle
                                     ELSE [Idle EXCEPT !.pc = "load", !.queue = rest,
                                                       !.now = run[p].now]]
        /\ last' = StepOp("export_contact", cid, <<[c |-> cid, n |-> Len(run[p].rows)]>>)
        /\ pending' = [pending EXCEPT
                         ![cid] = IF @.phase = "waiting" THEN [@ EXCEPT !.phase = "rerun"]
                                  ELSE NoPending]
  /\ UNCHANGED <<store, index, clock, hist>>

\* The process is killed.  Killed after CSV, JSON snapshot and rollup were
\* written and before state.json was opened, it leaves the contact waiting
\* for the run that is to repair it.
Interrupt(p) ==
  /\ run[p].pc # "idle"
  /\ LET cid == Current(p)
         f == files[cid]
     IN /\ pending' = [pending EXCEPT
                         ![cid] = IF run[p].pc = "state_open" /\ run[p].rows # <<>>
                                     /\ @.phase = "none"
                                  THEN [phase |-> "waiting", data |-> read_json(f.json),
                                        days |-> load_rollup(f.rollup)]
                                  ELSE @]
        /\ last' = StepOp("interrupt", cid, <<>>)
  /\ run' = [run EXCEPT ![p] = Idle]
  /\ UNCHANGED <<store, index, files, clock, hist>>

\* The steps of a run that is left alone, and those of one that may be killed.
Run(p) ==
  \/ Start(p) \/ Load(p) \/ Csv(p) \/ JsonRead(p) \/ JsonOpen(p) \/ JsonWrite(p)
  \/ RollupRead(p) \/ RollupOpen(p) \/ RollupWrite(p) \/ StateOpen(p)
  \/ StateWrite(p)

Step(p) == Run(p) \/ Interrupt(p)

StepNext == StepInsert \/ Register \/ Step("manual")

SpecSteps == Init /\ [][StepNext]_vars

\* ------------------------------------------------- a batch run, step by step
\* Runs that are left alone, over both contacts registered beforehand
\* (setup only), seen after each of their reads and writes: every state
\* inside a run is one in which the process can be killed, and shows the
\* files a kill at that point would leave.
RegisteredIndex ==
  <<[id |-> NUM_A, displayName |-> NUM_A], [id |-> NUM_B, displayName |-> NUM_B]>>

InitRegistered ==
  /\ store = {}
  /\ index = RegisteredIndex
  /\ files = [c \in ContactInputs |-> ensure_contact_fs(NoContactFs)]
  /\ clock = 0
  /\ last = [op |-> "init", contact |-> <<>>, scope |-> "", db_ok |-> TRUE,
             opened |-> FALSE, done |-> <<>>, raised |-> FALSE,
             pre |-> files, fresh |-> NoneFresh]
  /\ hist = [shape |-> [c \in ContactInputs |-> "initial"], fresh |-> NoneFresh]
  /\ run = [p \in Procs |-> Idle]
  /\ pending = [c \in ContactInputs |-> NoPending]

BatchNext == StepInsert \/ Run("manual")

SpecBatch == InitRegistered /\ [][BatchNext]_vars

\* ------------------------------------------------- two runs at once
\* The menu's run_export_all and the LaunchAgent's auto_run are separate
\* processes over the same files, with nothing that makes one wait for the
\* other; their reads and writes interleave freely.  auto_run's loop is the
\* loop of run_export_all.  No process is killed.
RaceRows == {Row(i, h, <<IntRaw(0, 0), 1>>) : i \in RowIds, h \in ContactInputs}

RaceInsert ==
  /\ AllIdle
  /\ InsertFrom(RaceRows)

RaceNext == RaceInsert \/ Register \/ Run("manual") \/ Run("auto")

SpecRace == Init /\ [][RaceNext]_vars

\* ----------------------------------------------------------------- claims
Batch == {"run_export_all", "auto_run"}
Cursor(f) == load_state(f.state).last_rowid
Snapshot(f) == IF f.json.kind = "json" THEN f.json.data ELSE <<>>
RowidSeq(data) == [i \in DOMAIN data |-> data[i].rowid]

NoDup(data) == \A i, j \in DOMAIN data : i # j => data[i].rowid # data[j].rowid

\* C1: for a contact set up once with add_new_number (scope all, last_n_days
\* or none) and exported incrementally afterwards, the JSON snapshot never
\* holds two records with the same rowid.
C1_NoDuplicateRowids ==
  \A c \in ContactInputs : hist.shape[c] # "reimported" => NoDup(Snapshot(files[c]))

\* An incremental run has appended to a snapshot written by an earlier run.
C1_Witness ==
  /\ last.op = "run_export_all"
  /\ \E i \in DOMAIN last.done :
       /\ last.done[i].n >= 1
       /\ hist.shape[last.done[i].c] = "initial"
       /\ Len(Snapshot(files[last.done[i].c])) > last.done[i].n

\* Not part of C1: once add_new_number imports again with scope all, the rows
\* already in the snapshot are appended a second time.
NoDuplicateRowidsAtAll == \A c \in ContactInputs : NoDup(Snapshot(files[c]))

\* C2: the cursor load_state reads back for a contact never decreases from
\* before an operation to after it.
C2_MonotonicCursor ==
  \A c \in ContactInputs : Cursor(files[c]) >= Cursor(last.pre[c])

\* A re-import limited by date fetched rows all below the saved cursor.
C2_Witness ==
  /\ last.op = "add_new_number"
  /\ last.scope = "last_n_days"
  /\ last.done # <<>>
  /\ last.done[1].n >= 1
  /\ LET data == Snapshot(files[last.contact])
     IN data[Len(data)].rowid < Cursor(last.pre[last.contact])

RECURSIVE SumTotals(_, _)
SumTotals(days, keys) ==
  IF keys = {} THEN 0
  ELSE LET k == CHOOSE x \in keys : TRUE
       IN days[k].total + SumTotals(days, keys \ {k})

Dated(data) == {i \in DOMAIN data : data[i].date.kind = "iso"}

\* C3: the totals of rollup.json add up to the number of snapshot records
\* with a date, and every bucket has total = me + them.
C3_RollupConsistent ==
  \A c \in ContactInputs :
    LET days == load_rollup(files[c].rollup)
    IN /\ SumTotals(days, DOMAIN days) = Cardinality(Dated(Snapshot(files[c])))
       /\ \A k \in DOMAIN days : days[k].total = days[k].me + days[k].them

\* A snapshot with an undated record and a day holding a sent and a received one.
C3_Witness ==
  \E c \in ContactInputs :
    LET days == load_rollup(files[c].rollup)
        data == Snapshot(files[c])
    IN /\ \E i \in DOMAIN data : data[i].date.kind = "none"
       /\ \E k \in DOMAIN days : days[k].me >= 1 /\ days[k].them >= 1

Artifacts(f) == <<f.json, f.csv, f.rollup>>

\* C4: an incremental run of a contact whose preceding export was a completed
\* incremental run, with no change to the store in between, returns 0 and
\* leaves the JSON snapshot, the CSV and rollup.json as they were.
C4_SecondRunIsNoOp ==
  last.op \in Batch =>
    \A i \in DOMAIN last.done :
      LET c == last.done[i].c
      IN last.fresh[c] =>
           /\ last.done[i].n = 0
           /\ Artifacts(files[c]) = Artifacts(last.pre[c])

\* The second of two runs, the first of which exported something.
C4_Witness ==
  /\ last.op \in Batch
  /\ \E i \in DOMAIN last.done :
       /\ last.fresh[last.done[i].c]
       /\ Snapshot(files[last.done[i].c]) # <<>>
       /\ files[last.done[i].c].rollup.updated_at < clock

\* The rowids of the contact's stored rows above a cursor, ascending.
RECURSIVE Ascending(_)
Ascending(ids) ==
  IF ids = {} THEN <<>>
  ELSE LET m == CHOOSE x \in ids : \A y \in ids : x <= y
       IN <<m>> \o Ascending(ids \ {m})

RowidsAbove(S, c, cur) == {r.rowid : r \in {q \in S : q.handle = c /\ q.rowid > cur}}

\* C5: a completed incremental run of a contact with cursor cur appends the
\* contact's stored rows with rowid > cur to the snapshot, in ascending order
\* after the records already there, returns their number, and leaves the
\* cursor at the larger of cur and the largest rowid appended.
C5_IncrementalAppend ==
  last.op \in Batch =>
    \A i \in DOMAIN last.done :
      LET c == last.done[i].c
          cur == Cursor(last.pre[c])
          ids == RowidsAbove(store, c, cur)
      IN /\ RowidSeq(Snapshot(files[c]))
              = RowidSeq(Snapshot(last.pre[c])) \o Ascending(ids)
         /\ last.done[i].n = Cardinality(ids)
         /\ Cursor(files[c]) = Max(ids \cup {cur})

\* A run that found a row above a cursor left by an earlier import.
C5_Witness ==
  /\ last.op = "auto_run"
  /\ \E i \in DOMAIN last.done :
       /\ last.done[i].n >= 1
       /\ Cursor(last.pre[last.done[i].c]) >= 1
       /\ Cursor(files[last.done[i].c]) > Cursor(last.pre[last.done[i].c])

\* C7: when the export of one contact of a batch fails, the contacts after
\* it in the index are still exported in the same run.
C7_FailureDoesNotAbortBatch ==
  (last.op \in Batch /\ last.opened /\ last.raised) =>
    \A i \in DOMAIN index :
      i > Len(last.done) + 1 => index[i].id \in DoneContacts(last.done)

PersistedState(f) == <<f.state, f.json, f.csv, f.rollup>>

\* C8: an operation that cannot open the message store leaves state.json,
\* the JSON snapshot, the CSV and rollup.json of every contact unchanged.
C8_StoreUnavailableTouchesNothing ==
  ~last.db_ok =>
    \A c \in ContactInputs : PersistedState(files[c]) = PersistedState(last.pre[c])

\* The store could not be opened while a registered contact had rows to export.
C8_Witness ==
  /\ ~last.db_ok
  /\ last.op = "run_export_all"
  /\ \E i \in DOMAIN index :
       RowidsAbove(store, index[i].id, Cursor(files[index[i].id])) # {}

\* C6: a run killed after the CSV, the JSON snapshot and the rollup of a
\* contact were written and before its cursor was saved is repaired by the
\* next complete run: with the store unchanged, the snapshot and the rollup
\* counts are then what the killed run had written, every row once.
C6_InterruptedRunSelfHeals ==
  \A c \in ContactInputs :
    (pending[c].phase = "rerun" /\ last.op = "export_contact" /\ last.contact = c) =>
      /\ Snapshot(files[c]) = pending[c].data
      /\ load_rollup(files[c].rollup) = pending[c].days

\* C9: once no run is in progress, state.json is missing or holds a complete
\* state, the previous or the new one; it is never a half-written file.
C9_SaveStateAtomic ==
  AllIdle => \A c \in ContactInputs : files[c].state.kind \in {"absent", "json"}

HandleMatches(h) == \E v \in {NUM_A, H_NOPLUS} : EndsWith(h, v)

LastRowids(data, n) == {data[i].rowid : i \in {j \in DOMAIN data : j > Len(data) - n}}

\* C10: an import of +447962786922 with scope all fetches the messages of
\* exactly the handles that are, or end in, +447962786922 or 447962786922;
\* none of +19999999999.
C10_ResolverSuffixMatch ==
  (last.op = "add_new_number" /\ last.contact = NUM_A /\ last.scope = "all"
     /\ last.done # <<>>) =>
    LastRowids(Snapshot(files[NUM_A]), last.done[1].n)
      = {r.rowid : r \in {q \in store : HandleMatches(q.handle)}}

\* The instant a raw integer names when read as whole seconds, and the
\* instants within a second of it when read as nanoseconds.
WholeSeconds(raw) ==
  LET r == raw.hi * 6400 + raw.lo
  IN Iso(raw.hi * 11574 + (r \div 86400), r % 86400)

Nanoseconds(raw) == {Iso(s \div 86400, s % 86400) : s \in raw.hi - 1 .. raw.hi + 1}

ExceedsThreshold(raw) ==
  Abs(raw.hi) > ThresholdGiga \/ (Abs(raw.hi) = ThresholdGiga /\ Abs(raw.lo) > 0)

Decoded(raw, iso) ==
  IF raw.kind \in {"null", "text"} THEN iso = NoneIso
  ELSE IF ExceedsThreshold(raw) THEN iso \in Nanoseconds(raw)
  ELSE iso = WholeSeconds(raw)

\* C11: after an import with scope all, every stored message of the contact
\* is in the snapshot with its date decoded as whole seconds past the epoch
\* when the raw value's magnitude is at most 10^12 (999_999_999_999
\* included), as nanoseconds past the epoch when it is larger
\* (1_000_000_000_001), and as null when the raw value is NULL or not a
\* number.
C11_CodecBoundary ==
  (last.op = "add_new_number" /\ last.scope = "all" /\ last.opened) =>
    \A r \in store :
      r.handle = last.contact =>
        \E i \in DOMAIN Snapshot(files[last.contact]) :
          /\ Snapshot(files[last.contact])[i].rowid = r.rowid
          /\ Decoded(r.date_apple, Snapshot(files[last.contact])[i].date)

\* C12: no export ends in an exception on account of a stored date: for
\* every raw value apple_time_to_iso returns a timestamp or null.
C12_CodecNeverRaises ==
  /\ \A r \in store : apple_time_to_iso(r.date_apple).kind \in {"iso", "none"}
  /\ last.op \in Batch \cup {"add_new_number"} => ~last.raised

NoMatch(S, c) == \A r \in S : r.handle \notin normalize_number_variants(c)

NoArtifacts == <<AbsentJson, AbsentCsv, AbsentRollup>>

\* The contacts whose export_contact call, with a scope that fetches, has
\* returned in the last operation, each with the number returned.
Returned ==
  IF last.op \in Batch \/ (last.op = "add_new_number" /\ last.scope # "none")
  THEN {last.done[i] : i \in DOMAIN last.done}
  ELSE {}

\* C13 as stated: a run for a contact whose identifier matches no handle of
\* the store returns 0 and afterwards the contact has no state.json, no
\* snapshot, no CSV and no rollup.json.
C13_NoMatchCreatesNoFile ==
  \A d \in Returned :
    NoMatch(store, d.c) =>
      /\ d.n = 0
      /\ PersistedState(files[d.c]) = PersistedState(NoContactFs)

\* C13 as amended: such a run returns 0, leaves the snapshot, the CSV and
\* rollup.json as they were (absent for a contact never exported), and
\* writes a state.json that holds the cursor as it was (0 for a contact
\* never run) and the time of the run.
C13_NoMatchWritesStateOnly ==
  \A d \in Returned :
    NoMatch(store, d.c) =>
      /\ d.n = 0
      /\ Artifacts(files[d.c]) = Artifacts(last.pre[d.c])
      /\ last.pre[d.c].state = AbsentState => Artifacts(files[d.c]) = NoArtifacts
      /\ files[d.c].state = [kind |-> "json", last_rowid |-> Cursor(last.pre[d.c]),
                             last_run_at |-> clock]

\* A batch run reached a registered contact without messages while the
\* store held messages of another handle.
C13_Witness ==
  /\ last.op \in Batch
  /\ store # {}
  /\ \E d \in Returned : NoMatch(store, d.c) /\ last.pre[d.c].state = AbsentState

\* The contacts export_contact was called for, with a scope that fetches, in
\* the last operation: those whose call returned and the one whose call raised.
Invoked ==
  IF last.op \in Batch THEN Reached(last, contact_ids(index))
  ELSE IF last.op = "add_new_number" /\ last.opened /\ last.scope # "none"
  THEN {last.contact}
  ELSE {}

\* C14: after an operation, every contact it called export_contact for
\* (incrementally, or with scope all or last_n_days) has a state.json whose
\* last_run_at is the time of that operation.
C14_EveryInvocationStampsLastRun ==
  \A c \in Invoked : load_state(files[c].state).last_run_at = clock

\* Beside C14: the setup-only call (scope none) returns before
\* save_state and leaves the contact reading as never run.
SetupOnlyStampsLastRun ==
  (last.op = "add_new_number" /\ last.opened /\ last.scope = "none") =>
    load_state(files[last.contact].state).last_run_at = clock

RowidSet(data) == {data[i].rowid : i \in DOMAIN data}

\* C15: the rowids of a contact's snapshot before an operation are all in
\* its snapshot after the operation.
C15_SnapshotOnlyGrows ==
  \A c \in ContactInputs :
    RowidSet(Snapshot(last.pre[c])) \subseteq RowidSet(Snapshot(files[c]))

\* An import limited by date appended fewer records than the snapshot held.
C15_Witness ==
  /\ last.op = "add_new_number"
  /\ last.scope = "last_n_days"
  /\ \E d \in Returned :
       /\ d.n >= 1
       /\ d.n < Len(Snapshot(last.pre[d.c]))
       /\ RowidSet(Snapshot(last.pre[d.c])) = RowidSet(Snapshot(files[d.c]))

CsvRecords(csvfile) == SelectSeq(csvfile.lines, LAMBDA l : ~l.header)
CsvHeaders(csvfile) == {i \in DOMAIN csvfile.lines : csvfile.lines[i].header}

\* C16: the CSV of a contact has the same rowids in the same order as its
\* snapshot, exists exactly when the snapshot does, and has one header
\* line, the first.
C16_CsvMatchesSnapshot ==
  \A c \in ContactInputs :
    /\ RowidSeq(CsvRecords(files[c].csv)) = RowidSeq(Snapshot(files[c]))
    /\ files[c].csv.exists <=> files[c].json.kind = "json"
    /\ files[c].csv.exists => CsvHeaders(files[c].csv) = {1}

\* A run appended to a CSV that an earlier run had created.
C16_Witness ==
  \E d \in Returned :
    /\ d.n >= 1
    /\ last.pre[d.c].csv.exists
    /\ Len(files[d.c].csv.lines) = Len(last.pre[d.c].csv.lines) + d.n

NoDupIds(idx) == \A i, j \in DOMAIN idx : i # j => idx[i].id # idx[j].id

\* C17: in every step the index keeps at most one entry per id and keeps
\* every contact it had; add_new_number leaves its contact registered, and
\* when the contact was registered already the list of ids is unchanged and
\* no entry of another contact changes.
C17_RegisterIsUpsert ==
  [][/\ NoDupIds(index')
     /\ \A i \in DOMAIN index : InIndex(index', index[i].id)
     /\ last'.op = "add_new_number" =>
          /\ InIndex(index', last'.contact)
          /\ InIndex(index, last'.contact) =>
               /\ contact_ids(index') = contact_ids(index)
               /\ \A i \in DOMAIN index :
                    index[i].id # last'.contact => index'[i] = index[i]]_vars

\* A contact registered for the second time, under a new display name, in
\* an index of two contacts.
C17_Witness ==
  /\ last.op = "add_new_number"
  /\ hist.shape[last.contact] = "reimported"
  /\ Len(index) = 2
  /\ \E i \in DOMAIN index :
       index[i].id = last.contact /\ index[i].displayName = <<"D", "a", "d">>

\* C18: after a completed incremental run of a contact first imported with
\* scope all, every stored message whose handle is the contact's id is in
\* the contact's snapshot, whatever its rowid.
C18_LateRowsIncluded ==
  last.op \in Batch =>
    \A d \in Returned :
      \A r \in store :
        r.handle = d.c => r.rowid \in RowidSet(Snapshot(files[d.c]))

\* C19: a batch run never ends in an exception on account of what
\* state.json, the snapshot or rollup.json of a contact hold.
C19_MalformedFilesNeverFatal ==
  (last.op \in Batch /\ last.opened) =>
    /\ ~last.raised
    /\ DoneContacts(last.done) = {index[i].id : i \in DOMAIN index}

\* Beside C19: content that does not parse at all is taken as
\* the default and the run completes.
Unparsable(f) ==
  /\ f.state.kind # "shape"
  /\ f.state.last_rowid # BadRowid
  /\ f.json.kind # "shape"
  /\ f.rollup.kind # "shape"

UnparsableFilesNeverFatal ==
  (last.op \in Batch /\ last.opened /\ \A c \in ContactInputs : Unparsable(last.pre[c]))
    => ~last.raised

DatedRows(S, c) == {r \in S : r.handle = c /\ apple_time_to_iso(r.date_apple).kind = "iso"}

\* C20: once the manual run and the scheduled run have both ended, the
\* snapshot and the CSV of every contact hold no rowid twice and the rollup
\* counts no stored message twice.
C20_LastWriterWins ==
  AllIdle =>
    \A c \in ContactInputs :
      /\ NoDup(Snapshot(files[c]))
      /\ NoDup(CsvRecords(files[c].csv))
      /\ SumTotals(load_rollup(files[c].rollup), DOMAIN load_rollup(files[c].rollup))
           <= Cardinality(DatedRows(store, c))

\* The rollup counted afresh from a snapshot: one bucket per day that a
\* record's date falls on, with the numbers of its records sent by the owner
\* and received.
DaysOf(data) == {data[i].date.day : i \in Dated(data)}

OnDay(data, k, mine) ==
  Cardinality({i \in Dated(data) :
                 data[i].date.day = k /\ (data[i].is_from_me # 0) = mine})

Recount(data) ==
  [k \in DaysOf(data) |->
     [me |-> OnDay(data, k, TRUE), them |-> OnDay(data, k, FALSE),
      total |-> OnDay(data, k, TRUE) + OnDay(data, k, FALSE)]]

\* C21: the days of rollup.json are those counted afresh from the contact's
\* snapshot: same day keys, same me, them and total; records without a date
\* are in no bucket.
C21_RollupEqualsRecount ==
  \A c \in ContactInputs :
    LET days == files[c].rollup.days
        fresh == Recount(Snapshot(files[c]))
    IN /\ DOMAIN days = DOMAIN fresh
       /\ \A k \in DOMAIN days : days[k] = fresh[k]

\* A run added a record without a date to a snapshot whose dated records
\* an earlier run had counted.
C21_Witness ==
  \E d \in Returned :
    /\ d.n >= 1
    /\ last.pre[d.c].rollup.days # <<>>
    /\ files[d.c].rollup.days = last.pre[d.c].rollup.days
    /\ \E i \in DOMAIN Snapshot(files[d.c]) : Snapshot(files[d.c])[i].date = NoneIso

\* The contacts a run in progress has finished with: those of the index no
\* longer in its queue.
Earlier(p) ==
  {contact_ids(index)[i] : i \in 1 .. Len(index) - Len(run[p].queue)}

\* Rows are in the CSV or the snapshot of the contact that its cursor does
\* not cover.
Unsaved(f) ==
  \E id \in RowidSet(CsvRecords(f.csv)) \cup RowidSet(Snapshot(f)) : id > Cursor(f)

Consistent(f) ==
  /\ f.state.kind = "json"
  /\ f.json.kind \in {"absent", "json"}
  /\ f.rollup.kind \in {"absent", "json"}
  /\ NoDup(Snapshot(f))
  /\ RowidSeq(CsvRecords(f.csv)) = RowidSeq(Snapshot(f))
  /\ f.rollup.days = Recount(Snapshot(f))
  /\ Cursor(f) = Max(RowidSet(Snapshot(f)) \cup {0})

\* C22: at every point of a batch run, every contact the run has finished
\* with has its state saved by this run and its snapshot, CSV, rollup and
\* cursor agreeing, and the only contact that can have rows written that
\* its cursor does not cover is the one in progress; between runs there is
\* none.
C22_OneContactAtATime ==
  /\ AllIdle => \A c \in ContactInputs : ~Unsaved(files[c])
  /\ \A p \in Procs :
       run[p].pc # "idle" =>
         /\ \A c \in Earlier(p) :
              /\ Consistent(files[c])
              /\ files[c].state.last_run_at = run[p].now
         /\ \A c \in ContactInputs : Unsaved(files[c]) => c = Current(p)

\* The run has exported the first contact's message and saved its cursor,
\* and has written the second contact's CSV, snapshot and rollup but not
\* yet its state.json.
C22_Witness ==
  /\ run["manual"].pc = "state_open"
  /\ Len(run["manual"].queue) = 1
  /\ Unsaved(files[Current("manual")])
  /\ \E c \in Earlier("manual") : Cursor(files[c]) >= 1

\* The last operation was add_new_number with scope none and it reached its
\* export_contact call.
SetupOnly == last.op = "add_new_number" /\ last.opened /\ last.scope = "none"

\* A message of the contact whose date raises in fetch_dm_rows.
Unfetchable(S, c) ==
  \E r \in S : /\ r.handle \in normalize_number_variants(c)
               /\ apple_time_to_iso(r.date_apple) = RaiseIso

\* C23: export_contact with scope none returns 0 and leaves state.json (its
\* cursor and last_run_at), the JSON snapshot, the CSV and rollup.json of
\* the contact, and those of every other contact, as they were; it does not
\* raise, not even when the store holds a message of the contact that no
\* query for it gets past.
C23_SetupOnlyDoesNothing ==
  SetupOnly =>
    /\ ~last.raised
    /\ last.done = <<[c |-> last.contact, n |-> 0]>>
    /\ \A c \in ContactInputs :
         /\ files[c].state = last.pre[c].state
         /\ files[c].json = last.pre[c].json
         /\ files[c].csv = last.pre[c].csv
         /\ files[c].rollup = last.pre[c].rollup

\* Scope none for a contact that has been exported before, while the store
\* holds a newer message of the contact whose date makes every fetch for the
\* contact raise.
C23_Witness ==
  /\ SetupOnly
  /\ Cursor(last.pre[last.contact]) >= 1
  /\ Snapshot(last.pre[last.contact]) # <<>>
  /\ Unfetchable(store, last.contact)
  /\ \E r \in store : /\ r.handle \in normalize_number_variants(last.contact)
                      /\ r.rowid > Cursor(last.pre[last.contact])

LargestRowid(f) == Max(RowidSet(Snapshot(f)) \cup {0})

\* C24: in every state, those inside a run included, the cursor persisted in
\* a contact's state.json is at most the largest rowid of the contact's
\* persisted JSON snapshot, 0 for a snapshot that is empty or absent.
C24_CursorWithinSnapshot ==
  \A c \in ContactInputs : Cursor(files[c]) <= LargestRowid(files[c])

\* Beside C24: seen only between operations, after every call that exported
\* rows the cursor is the largest rowid of the snapshot.
CursorIsLargestAfterRun ==
  \A d \in Returned : d.n >= 1 => Cursor(files[d.c]) = LargestRowid(files[d.c])

====
